---------------------------- MODULE Spec2Model ----------------------------
(***************************************************************************)
(* Discovery event propagation: DiscoverySink (pkg/core/discovery/sink.go) *)
(* A sink holds one Consumer reference; AddConsumer overwrites it; each of *)
(* the four OnXxx handlers forwards to the consumer when one is attached   *)
(* and returns nil otherwise.  Handlers run on the caller's goroutine, so  *)
(* a call is a stack of handler activations.                               *)
(***************************************************************************)
EXTENDS Naturals, Sequences, FiniteSets

(* ------------------------------ bounds -------------------------------- *)
\* events pushed by the sources in one run
MaxEvents == 3
\* events pushed in one run over the three-sink chain
MaxChainEvents == 2
\* handler activations one goroutine may nest before its stack is exhausted
MaxDepth == 3

(* ----------------------------- universe ------------------------------- *)
Sinks     == {"A", "B", "D"}
Terminals == {"C1", "C2"}
Targets   == Sinks \cup Terminals
Nil       == "nil"
Sources   == {"src1", "src2"}
MainSource == "src1"
Kinds     == {"OnServiceUpdate", "OnServiceDelete", "OnWorkloadUpdate", "OnWorkloadDelete"}
Args      == {"p1", "p2"}
Ok        == "ok"
Errors    == {"err1", "err2"}
Results   == {Ok} \cup Errors
NoRes     == "none"
Never     == "never"
NoWrite   == "no write"
\* an interface value read while it is being overwritten: the method table of
\* one consumer with the data pointer of the other
TornValue == "torn"

(* ------------------------------ package tls ----------------------------- *)
\* outcomes of the library calls NewSelfSignedCert makes: a value or an error
CommonNames == {"cp.local", "xds.local"}
Keys        == {"k1", "k2"}
Serials     == {"n1", "n2"}
Done        == "done"
LibErrors   == {"EOF", "short read"}

\* one outcome for each library call, in the order of the calls
Envs ==
  [GenerateKey         : Keys \cup LibErrors,
   RandInt             : Serials \cup LibErrors,
   CreateCertificate   : {Done} \cup LibErrors,
   EncodeCert          : {Done} \cup LibErrors,
   MarshalECPrivateKey : {Done} \cup LibErrors,
   EncodeKey           : {Done} \cup LibErrors]

\* errors.Wrap(err, msg): the error that reads "msg: err"
Wrap(err, msg) == msg \o ": " \o err

\* a nil []byte, and KeyPair{}
NoBytes == << >>
EmptyKeyPair == [CertPEM |-> NoBytes, KeyPEM |-> NoBytes]

\* pem.Encode(&buf, &pem.Block{Type: type, Bytes: der}) followed by buf.Bytes()
PemEncode(type, der) == <<"-----BEGIN " \o type \o "-----", der, "-----END " \o type \o "-----">>

\* func newCert(commonName string) (x509.Certificate, error)
newCert(commonName, env) ==
  IF env.RandInt \in LibErrors
    THEN [val |-> [SerialNumber |-> Nil, CommonName |-> ""],
          err |-> Wrap(env.RandInt, "failed to generate serial number")]
    ELSE [val |-> [SerialNumber |-> env.RandInt, CommonName |-> commonName], err |-> Nil]

\* func generateCert(commonName string, key *ecdsa.PrivateKey) ([]byte, error)
generateCert(commonName, key, env) ==
  LET csr == newCert(commonName, env) IN
    IF csr.err # Nil THEN [val |-> NoBytes, err |-> csr.err]
    ELSE IF env.CreateCertificate \in LibErrors
      THEN [val |-> NoBytes,
            err |-> Wrap(env.CreateCertificate, "failed to generate TLS certificate")]
    ELSE IF env.EncodeCert \in LibErrors
      THEN [val |-> NoBytes,
            err |-> Wrap(env.EncodeCert, "failed to PEM encode TLS certificate")]
    ELSE [val |-> PemEncode("CERTIFICATE", <<csr.val, key>>), err |-> Nil]

\* func marshalKey(key *ecdsa.PrivateKey) ([]byte, error)
marshalKey(key, env) ==
  IF env.MarshalECPrivateKey \in LibErrors
    THEN [val |-> NoBytes, err |-> Wrap(env.MarshalECPrivateKey, "failed to marshal TLS key")]
  ELSE IF env.EncodeKey \in LibErrors
    THEN [val |-> NoBytes, err |-> Wrap(env.EncodeKey, "failed to PEM encode TLS key")]
  ELSE [val |-> PemEncode("EC PRIVATE KEY", <<key>>), err |-> Nil]

\* variant: the certificate already made is handed back when the key fails
NewSelfSignedCertKeepsCert(commonName, env) ==
  IF env.GenerateKey \in LibErrors
    THEN [pair |-> EmptyKeyPair, err |-> Wrap(env.GenerateKey, "failed to generate TLS key")]
  ELSE LET certBytes == generateCert(commonName, env.GenerateKey, env)
           keyBytes  == marshalKey(env.GenerateKey, env)
       IN IF certBytes.err # Nil THEN [pair |-> EmptyKeyPair, err |-> certBytes.err]
          ELSE IF keyBytes.err # Nil
            THEN [pair |-> [CertPEM |-> certBytes.val, KeyPEM |-> NoBytes], err |-> keyBytes.err]
          ELSE [pair |-> [CertPEM |-> certBytes.val, KeyPEM |-> keyBytes.val], err |-> Nil]

\* func NewSelfSignedCert(commonName string) (KeyPair, error)
NewSelfSignedCert(commonName, env) ==
  IF env.GenerateKey \in LibErrors
    THEN [pair |-> EmptyKeyPair, err |-> Wrap(env.GenerateKey, "failed to generate TLS key")]
  ELSE LET certBytes == generateCert(commonName, env.GenerateKey, env)
           keyBytes  == marshalKey(env.GenerateKey, env)
       IN IF certBytes.err # Nil THEN [pair |-> EmptyKeyPair, err |-> certBytes.err]
          ELSE IF keyBytes.err # Nil THEN [pair |-> EmptyKeyPair, err |-> keyBytes.err]
          ELSE [pair |-> [CertPEM |-> certBytes.val, KeyPEM |-> keyBytes.val], err |-> Nil]

\* no call of NewSelfSignedCert has been made
NoCall == [called |-> FALSE]

VARIABLES
  Consumer,   \* Consumer[s]: the field DiscoverySink.Consumer of sink s (Nil when unset)
  stack,      \* stack[t]: handler activations of source t's goroutine, innermost last
  status,     \* status[t]: "idle", "running" (inside a sink call) or "returned"
  result,     \* result[t]: the error value the outermost call handed back to t
  cur,        \* cur[t]: number of the event t is pushing (0 when idle)
  trace,      \* trace[t]: calls and returns observed during t's current call
  received,   \* received[c]: event numbers terminal consumer c has been invoked with
  pushedBy,   \* pushedBy[n]: the source that pushed event n
  lastAdded,  \* lastAdded[s]: argument of the most recent AddConsumer on s
  failed,     \* numbers of the events whose call handed a failure back to the source
  tlsCall,    \* the latest call of NewSelfSignedCert: its inputs and what it returned (NoCall when none)
  pending,    \* pending[s]: value an unsynchronised store to s.Consumer is writing (NoWrite when none)
  fatal       \* "none", or the runtime error that ended the process

vars == <<Consumer, stack, status, result, cur, trace, received, pushedBy, lastAdded, failed, pending, fatal, tlsCall>>

(* ------------------------------ helpers ------------------------------- *)
Top(t) == stack[t][Len(stack[t])]

NewFrame(s, k, a) == [sink |-> s, kind |-> k, arg |-> a, pc |-> "check", seen |-> Nil, res |-> NoRes]

CallEntry(d, by, on, k, a) ==
  [type |-> "call", d |-> d, by |-> by, on |-> on, kind |-> k, arg |-> a, res |-> NoRes]

RetEntry(d, by, k, a, r) ==
  [type |-> "ret", d |-> d, by |-> by, on |-> by, kind |-> k, arg |-> a, res |-> r]

AllIdle == \A t \in Sources : status[t] = "idle"

\* dynamic type behind a DiscoveryConsumer interface value
TypeOf(c) ==
  IF c \in Sinks THEN "*DiscoverySink" ELSE IF c = Nil THEN "nil" ELSE c

\* what a load of s.Consumer can yield: the field's value, or, while a store
\* to the field is under way without synchronisation, also the value being
\* written and, when the two differ in dynamic type, a mix of their words
Observable(s) ==
  IF pending[s] = NoWrite THEN {Consumer[s]}
  ELSE {Consumer[s], pending[s]}
         \cup (IF TypeOf(Consumer[s]) # TypeOf(pending[s]) THEN {TornValue} ELSE {})

(* ------------------------- the sink's handlers ------------------------ *)
\* the forwarded invocation  s.Consumer.OnXxx(arg)
Forward(c, k, a) == [fwd |-> TRUE, on |-> c, kind |-> k, arg |-> a, res |-> NoRes]
\* variant: a sink without a consumer reports a failure
SuccessAsError == [fwd |-> FALSE, on |-> Nil, kind |-> NoRes, arg |-> NoRes, res |-> "err1"]

\* `return nil` with no consumer attached
Success == [fwd |-> FALSE, on |-> Nil, kind |-> NoRes, arg |-> NoRes, res |-> Ok]

OnServiceUpdate(c, svc) ==
  IF c # Nil THEN Forward(c, "OnServiceUpdate", svc) ELSE Success

\* variant: a sink that checks the name and forwards the delete of "p1" only
OnServiceDeleteKnownOnly(c, name) ==
  IF c # Nil /\ name = "p1" THEN Forward(c, "OnServiceDelete", name) ELSE Success

\* variant: the service delete is forwarded as a workload delete
OnServiceDeleteAsWorkload(c, name) ==
  IF c # Nil THEN Forward(c, "OnWorkloadDelete", name) ELSE Success

OnServiceDelete(c, name) ==
  IF c # Nil THEN Forward(c, "OnServiceDelete", name) ELSE Success

\* variant: the workload update handler never forwards
OnWorkloadUpdateDropped(c, wrk) == Success

OnWorkloadUpdate(c, wrk) ==
  IF c # Nil THEN Forward(c, "OnWorkloadUpdate", wrk) ELSE Success

OnWorkloadDelete(c, name) ==
  IF c # Nil THEN Forward(c, "OnWorkloadDelete", name) ELSE Success

\* variant: a sink forwards to terminal consumers only, not to other sinks
HandlerTerminalOnly(k, c, a) ==
  IF c \in Sinks THEN Success
  ELSE CASE k = "OnServiceUpdate"  -> OnServiceUpdate(c, a)
         [] k = "OnServiceDelete"  -> OnServiceDelete(c, a)
         [] k = "OnWorkloadUpdate" -> OnWorkloadUpdate(c, a)
         [] k = "OnWorkloadDelete" -> OnWorkloadDelete(c, a)

\* method dispatch on a *DiscoverySink
Handler(k, c, a) ==
  CASE k = "OnServiceUpdate"  -> OnServiceUpdate(c, a)
    [] k = "OnServiceDelete"  -> OnServiceDelete(c, a)
    [] k = "OnWorkloadUpdate" -> OnWorkloadUpdate(c, a)
    [] k = "OnWorkloadDelete" -> OnWorkloadDelete(c, a)

\* variant: the callee's failure is swallowed
ForwardResultSwallowed(r) == Ok

\* variant: the callee's failure is replaced by the sink's own error value
ForwardResultReplaced(r) == IF r = Ok THEN Ok ELSE "err1"

\* `return s.Consumer.OnXxx(..)`: the handler's result is the callee's result
ForwardResult(r) == r

(* ------------------------------ actions ------------------------------- *)
Init ==
  /\ Consumer = [s \in Sinks |-> Nil]
  /\ stack = [t \in Sources |-> << >>]
  /\ status = [t \in Sources |-> "idle"]
  /\ result = [t \in Sources |-> NoRes]
  /\ cur = [t \in Sources |-> 0]
  /\ trace = [t \in Sources |-> << >>]
  /\ received = [c \in Terminals |-> << >>]
  /\ pushedBy = << >>
  /\ lastAdded = [s \in Sinks |-> Never]
  /\ failed = {}
  /\ pending = [s \in Sinks |-> NoWrite]
  /\ fatal = "none"
  /\ tlsCall = NoCall

\* variant: a newly attached consumer is handed the latest event seen so far
AddConsumerReplays(s, c) ==
  /\ fatal = "none"
  /\ Consumer' = [Consumer EXCEPT ![s] = c]
  /\ lastAdded' = [lastAdded EXCEPT ![s] = c]
  /\ pending' = [pending EXCEPT ![s] = NoWrite]
  /\ received' = IF c \in Terminals /\ pushedBy # << >>
                   THEN [received EXCEPT ![c] = Append(received[c], Len(pushedBy))]
                   ELSE received
  /\ UNCHANGED <<stack, status, result, cur, trace, pushedBy, failed, fatal, tlsCall>>

\* variant: a consumer once attached is kept (first writer wins)
AddConsumerFirstWins(s, c) ==
  /\ fatal = "none"
  /\ Consumer' = [Consumer EXCEPT ![s] = IF Consumer[s] = Nil THEN c ELSE Consumer[s]]
  /\ lastAdded' = [lastAdded EXCEPT ![s] = c]
  /\ pending' = [pending EXCEPT ![s] = NoWrite]
  /\ UNCHANGED <<stack, status, result, cur, trace, received, pushedBy, failed, fatal, tlsCall>>

\* func (s *DiscoverySink) AddConsumer(c DiscoveryConsumer) { s.Consumer = c }
AddConsumer(s, c) ==
  /\ fatal = "none"
  /\ Consumer' = [Consumer EXCEPT ![s] = c]
  /\ lastAdded' = [lastAdded EXCEPT ![s] = c]
  /\ pending' = [pending EXCEPT ![s] = NoWrite]
  /\ UNCHANGED <<stack, status, result, cur, trace, received, pushedBy, failed, fatal, tlsCall>>

\* source t calls s.OnK(a): a new activation of the handler on t's goroutine
Push(t, s, k, a) ==
  /\ fatal = "none"
  /\ status[t] = "idle"
  /\ Len(pushedBy) < MaxEvents
  /\ pushedBy' = Append(pushedBy, t)
  /\ cur' = [cur EXCEPT ![t] = Len(pushedBy) + 1]
  /\ stack' = [stack EXCEPT ![t] = <<NewFrame(s, k, a)>>]
  /\ trace' = [trace EXCEPT ![t] = <<CallEntry(1, t, s, k, a)>>]
  /\ status' = [status EXCEPT ![t] = "running"]
  /\ result' = [result EXCEPT ![t] = NoRes]
  /\ UNCHANGED <<Consumer, received, lastAdded, failed, fatal, pending, tlsCall>>

\* `if s.Consumer != nil {` ... `}` `return nil`
Check(t) ==
  /\ fatal = "none"
  /\ status[t] = "running"
  /\ Top(t).pc = "check"
  /\ \E c \in Observable(Top(t).sink) :
       LET f == Top(t)
           h == Handler(f.kind, c, f.arg)
           g == IF h.fwd THEN [f EXCEPT !.pc = "call", !.seen = c]
                         ELSE [f EXCEPT !.pc = "ret", !.res = h.res]
       IN stack' = [stack EXCEPT ![t][Len(stack[t])] = g]
  /\ UNCHANGED <<Consumer, status, result, cur, trace, received, pushedBy, lastAdded, failed, pending, fatal, tlsCall>>

\* the forwarding call finds no consumer behind the interface value:
\* invalid memory address or nil pointer dereference
CallNil(t) ==
  /\ fatal' = "nil dereference"
  /\ UNCHANGED <<stack, trace, received>>

\* the forwarding call goes through a mixed interface value: one type's
\* method runs on the other's data
CallTorn(t) ==
  /\ fatal' = "torn interface"
  /\ UNCHANGED <<stack, trace, received>>

\* the forwarding call needs a frame the goroutine's stack cannot hold
CallOverflow(t) ==
  /\ fatal' = "stack overflow"
  /\ UNCHANGED <<stack, trace, received>>

\* the consumer is another sink: its handler is activated on the same goroutine
CallSink(t, h) ==
  LET f == Top(t)
      n == Len(stack[t])
  IN /\ stack' = [stack EXCEPT ![t] =
           Append([stack[t] EXCEPT ![n] = [f EXCEPT !.pc = "wait"]],
                  NewFrame(h.on, h.kind, h.arg))]
     /\ trace' = [trace EXCEPT ![t] =
           Append(trace[t], CallEntry(n + 1, f.sink, h.on, h.kind, h.arg))]
     /\ UNCHANGED <<received, fatal>>

\* variant: a failed forward is tried a second time
CallTerminalRetry(t, h) ==
  LET f == Top(t)
      n == Len(stack[t])
      call == CallEntry(n + 1, f.sink, h.on, h.kind, h.arg)
  IN \E r \in Results, r2 \in Results :
       /\ received' = [received EXCEPT ![h.on] =
             IF r \in Errors THEN received[h.on] \o <<cur[t], cur[t]>>
                             ELSE Append(received[h.on], cur[t])]
       /\ trace' = [trace EXCEPT ![t] =
             IF r \in Errors
               THEN trace[t] \o <<call, RetEntry(n + 1, h.on, h.kind, h.arg, r),
                                  call, RetEntry(n + 1, h.on, h.kind, h.arg, r2)>>
               ELSE trace[t] \o <<call, RetEntry(n + 1, h.on, h.kind, h.arg, r)>>]
       /\ stack' = [stack EXCEPT ![t][n] =
             [f EXCEPT !.pc = "ret", !.res = IF r \in Errors THEN r2 ELSE r]]
       /\ UNCHANGED fatal

\* variant: the sink parks the event in a slot shared by all callers and
\* forwards what the slot holds
CallTerminalSharedSlot(t, h) ==
  LET f == Top(t)
      n == Len(stack[t])
  IN \E r \in Results :
       /\ received' = [received EXCEPT ![h.on] = Append(received[h.on], Len(pushedBy))]
       /\ trace' = [trace EXCEPT ![t] =
             trace[t] \o <<CallEntry(n + 1, f.sink, h.on, h.kind, h.arg),
                           RetEntry(n + 1, h.on, h.kind, h.arg, r)>>]
       /\ stack' = [stack EXCEPT ![t][n] = [f EXCEPT !.pc = "ret", !.res = ForwardResult(r)]]
       /\ UNCHANGED fatal

\* variant: the sink queues the event for later delivery and reports success
CallTerminalDeferred(t, h) ==
  LET f == Top(t)
      n == Len(stack[t])
  IN /\ trace' = [trace EXCEPT ![t] =
           Append(trace[t], CallEntry(n + 1, f.sink, h.on, h.kind, h.arg))]
     /\ stack' = [stack EXCEPT ![t][n] = [f EXCEPT !.pc = "ret", !.res = Ok]]
     /\ UNCHANGED <<received, fatal>>

\* the consumer is a terminal consumer: it handles the event and returns r
CallTerminal(t, h) ==
  LET f == Top(t)
      n == Len(stack[t])
  IN \E r \in Results :
       /\ received' = [received EXCEPT ![h.on] = Append(received[h.on], cur[t])]
       /\ trace' = [trace EXCEPT ![t] =
             trace[t] \o <<CallEntry(n + 1, f.sink, h.on, h.kind, h.arg),
                           RetEntry(n + 1, h.on, h.kind, h.arg, r)>>]
       /\ stack' = [stack EXCEPT ![t][n] = [f EXCEPT !.pc = "ret", !.res = ForwardResult(r)]]
       /\ UNCHANGED fatal

\* `return s.Consumer.OnXxx(arg)`: the consumer is the value the check loaded
\* or a fresh load of the field
Call(t) ==
  /\ fatal = "none"
  /\ status[t] = "running"
  /\ Top(t).pc = "call"
  /\ \E c \in {Top(t).seen} \cup Observable(Top(t).sink) :
       LET h == Handler(Top(t).kind, c, Top(t).arg)
       IN CASE ~h.fwd -> CallNil(t)
            [] h.fwd /\ h.on = TornValue -> CallTorn(t)
            [] h.fwd /\ h.on \in Sinks /\ Len(stack[t]) >= MaxDepth -> CallOverflow(t)
            [] h.fwd /\ h.on \in Sinks /\ Len(stack[t]) < MaxDepth -> CallSink(t, h)
            [] h.fwd /\ h.on \in Terminals -> CallTerminal(t, h)
  /\ UNCHANGED <<Consumer, status, result, cur, pushedBy, lastAdded, failed, pending, tlsCall>>

\* variant: a one-shot sink, detached by its first successful forward
ReturnDetachOnDelivery(t) ==
  /\ fatal = "none"
  /\ status[t] = "running"
  /\ Top(t).pc = "ret"
  /\ LET f == Top(t)
         n == Len(stack[t])
     IN /\ trace' = [trace EXCEPT ![t] =
              Append(trace[t], RetEntry(n, f.sink, f.kind, f.arg, f.res))]
        /\ Consumer' = IF f.res = Ok /\ Consumer[f.sink] # Nil
                         THEN [Consumer EXCEPT ![f.sink] = Nil] ELSE Consumer
        /\ IF n = 1
             THEN /\ stack' = [stack EXCEPT ![t] = << >>]
                  /\ status' = [status EXCEPT ![t] = "returned"]
                  /\ result' = [result EXCEPT ![t] = f.res]
                  /\ failed' = IF f.res \in Errors THEN failed \cup {cur[t]} ELSE failed
             ELSE /\ stack' = [stack EXCEPT ![t] =
                        [SubSeq(stack[t], 1, n - 1) EXCEPT ![n - 1] =
                           [stack[t][n - 1] EXCEPT !.pc = "ret", !.res = ForwardResult(f.res)]]]
                  /\ UNCHANGED <<status, result, failed>>
  /\ UNCHANGED <<cur, received, pushedBy, lastAdded, fatal, pending, tlsCall>>

\* variant: a sink whose forward failed drops its consumer
ReturnDetachOnError(t) ==
  /\ fatal = "none"
  /\ status[t] = "running"
  /\ Top(t).pc = "ret"
  /\ LET f == Top(t)
         n == Len(stack[t])
     IN /\ trace' = [trace EXCEPT ![t] =
              Append(trace[t], RetEntry(n, f.sink, f.kind, f.arg, f.res))]
        /\ Consumer' = IF f.res \in Errors THEN [Consumer EXCEPT ![f.sink] = Nil] ELSE Consumer
        /\ IF n = 1
             THEN /\ stack' = [stack EXCEPT ![t] = << >>]
                  /\ status' = [status EXCEPT ![t] = "returned"]
                  /\ result' = [result EXCEPT ![t] = f.res]
                  /\ failed' = IF f.res \in Errors THEN failed \cup {cur[t]} ELSE failed
             ELSE /\ stack' = [stack EXCEPT ![t] =
                        [SubSeq(stack[t], 1, n - 1) EXCEPT ![n - 1] =
                           [stack[t][n - 1] EXCEPT !.pc = "ret", !.res = ForwardResult(f.res)]]]
                  /\ UNCHANGED <<status, result, failed>>
  /\ UNCHANGED <<cur, received, pushedBy, lastAdded, fatal, pending, tlsCall>>

\* the innermost activation returns its result to its caller
Return(t) ==
  /\ fatal = "none"
  /\ status[t] = "running"
  /\ Top(t).pc = "ret"
  /\ LET f == Top(t)
         n == Len(stack[t])
     IN /\ trace' = [trace EXCEPT ![t] =
              Append(trace[t], RetEntry(n, f.sink, f.kind, f.arg, f.res))]
        /\ IF n = 1
             THEN /\ stack' = [stack EXCEPT ![t] = << >>]
                  /\ status' = [status EXCEPT ![t] = "returned"]
                  /\ result' = [result EXCEPT ![t] = f.res]
                  /\ failed' = IF f.res \in Errors THEN failed \cup {cur[t]} ELSE failed
             ELSE /\ stack' = [stack EXCEPT ![t] =
                        [SubSeq(stack[t], 1, n - 1) EXCEPT ![n - 1] =
                           [stack[t][n - 1] EXCEPT !.pc = "ret", !.res = ForwardResult(f.res)]]]
                  /\ UNCHANGED <<status, result, failed>>
  /\ UNCHANGED <<Consumer, cur, received, pushedBy, lastAdded, fatal, pending, tlsCall>>

\* the source carries on after the call
Resume(t) ==
  /\ fatal = "none"
  /\ status[t] = "returned"
  /\ status' = [status EXCEPT ![t] = "idle"]
  /\ result' = [result EXCEPT ![t] = NoRes]
  /\ cur' = [cur EXCEPT ![t] = 0]
  /\ trace' = [trace EXCEPT ![t] = << >>]
  /\ UNCHANGED <<Consumer, stack, received, pushedBy, lastAdded, failed, fatal, pending, tlsCall>>

(* --------------------------- specifications --------------------------- *)
\* one caller: wiring and events are issued one call at a time, over the
\* sinks SS and the event kinds KK, at most lim events
NextOver(SS, KK, lim) ==
  \/ \E s \in SS, c \in SS \cup Terminals \cup {Nil} : AllIdle /\ AddConsumer(s, c)
  \/ \E s \in SS, k \in KK, a \in Args :
       AllIdle /\ Len(pushedBy) < lim /\ Push(MainSource, s, k, a)
  \/ Check(MainSource)
  \/ Call(MainSource)
  \/ Return(MainSource)
  \/ Resume(MainSource)

\* two sinks, every event kind
Next == NextOver({"A", "B"}, Kinds, MaxEvents)

Spec == Init /\ [][Next]_vars

\* three sinks, one update and one delete kind
NextChain == NextOver(Sinks, {"OnServiceUpdate", "OnWorkloadDelete"}, MaxChainEvents)

SpecChain == Init /\ [][NextChain]_vars

\* three sinks wired in any order, every event pushed into the head sink
HeadSink == "A"

NextPipeline ==
  \/ \E s \in Sinks, c \in Targets \cup {Nil} : AllIdle /\ AddConsumer(s, c)
  \/ \E k \in {"OnServiceUpdate", "OnWorkloadDelete"}, a \in Args :
       AllIdle /\ Len(pushedBy) < MaxChainEvents /\ Push(MainSource, HeadSink, k, a)
  \/ Check(MainSource)
  \/ Call(MainSource)
  \/ Return(MainSource)
  \/ Resume(MainSource)

SpecPipeline == Init /\ [][NextPipeline]_vars

\* several sources push into one sink from their own goroutines; wiring is
\* done while no call is under way (attachment precedes event flow)
NextConcOver(SS, KK, AA, lim) ==
  \/ \E s \in SS, c \in SS \cup Terminals \cup {Nil} : AllIdle /\ AddConsumer(s, c)
  \/ \E t \in Sources, s \in SS, k \in KK, a \in AA :
       Len(pushedBy) < lim /\ Push(t, s, k, a)
  \/ \E t \in Sources : Check(t)
  \/ \E t \in Sources : Call(t)
  \/ \E t \in Sources : Return(t)
  \/ \E t \in Sources : Resume(t)

NextConc == NextConcOver({"A"}, {"OnServiceUpdate", "OnWorkloadDelete"}, Args, MaxEvents)

SpecConc == Init /\ [][NextConc]_vars

\* AddConsumer on another goroutine, not ordered with the handlers: the store
\* `s.Consumer = c` begins; AddConsumer(s, pending[s]) completes it
StartStore(s, c) ==
  /\ fatal = "none"
  /\ pending[s] = NoWrite
  /\ pending' = [pending EXCEPT ![s] = c]
  /\ UNCHANGED <<Consumer, stack, status, result, cur, trace, received, pushedBy, lastAdded, failed, fatal, tlsCall>>

\* one source pushes into sink s while AddConsumer calls run beside it: the
\* sink is wired with a value of IdleVals while no call is under way, and
\* re-attached with values of RaceVals at any time once it holds one of them
NextRaceOver(s, IdleVals, RaceVals, KK, lim) ==
  \/ \E c \in IdleVals : AllIdle /\ pending[s] = NoWrite /\ AddConsumer(s, c)
  \/ \E c \in RaceVals : Consumer[s] \in RaceVals /\ StartStore(s, c)
  \/ pending[s] # NoWrite /\ AddConsumer(s, pending[s])
  \/ \E k \in KK, a \in Args : Len(pushedBy) < lim /\ Push(MainSource, s, k, a)
  \/ Check(MainSource)
  \/ Call(MainSource)
  \/ Return(MainSource)
  \/ Resume(MainSource)

\* a present consumer is replaced by a present consumer while calls run
NextSwap == NextRaceOver("A", Terminals, Terminals, {"OnServiceUpdate", "OnWorkloadDelete"}, MaxEvents)

SpecSwap == Init /\ [][NextSwap]_vars

\* AddConsumer with every value of its parameter type, nil included, while
\* calls run
NextRace == NextRaceOver("A", Terminals \cup {Nil}, Terminals \cup {Nil},
                         {"OnServiceUpdate", "OnWorkloadDelete"}, MaxEvents)

SpecRace == Init /\ [][NextRace]_vars

\* a service source and a workload source, each announcing "p1" twice with
\* the same payload and then deleting "p2", a name it never announced
Script(t, k) ==
  IF t = "src1"
    THEN [kind |-> IF k <= 2 THEN "OnServiceUpdate" ELSE "OnServiceDelete",
          arg  |-> IF k <= 2 THEN "p1" ELSE "p2"]
    ELSE [kind |-> IF k <= 2 THEN "OnWorkloadUpdate" ELSE "OnWorkloadDelete",
          arg  |-> IF k <= 2 THEN "p1" ELSE "p2"]

\* number of events among the first n that source t pushed
EventsOf(t, n) == Len(SelectSeq(SubSeq(pushedBy, 1, n), LAMBDA x : x = t))

\* the sources push their scripts into sink A one call at a time, while A is
\* attached, re-attached and detached between the calls
NextScripted ==
  \/ \E c \in Terminals \cup {Nil} : AllIdle /\ AddConsumer("A", c)
  \/ \E t \in Sources :
       LET e == Script(t, EventsOf(t, Len(pushedBy)) + 1)
       IN AllIdle /\ Push(t, "A", e.kind, e.arg)
  \/ \E t \in Sources : Check(t) \/ Call(t) \/ Return(t) \/ Resume(t)

SpecScripted == Init /\ [][NextScripted]_vars

\* the control plane calls NewSelfSignedCert(commonName); env holds what the
\* library calls answer during that call
CallNewSelfSignedCert(commonName, env) ==
  /\ tlsCall' = [called |-> TRUE, commonName |-> commonName, env |-> env,
                 ret |-> NewSelfSignedCert(commonName, env)]
  /\ UNCHANGED <<Consumer, stack, status, result, cur, trace, received, pushedBy, lastAdded, failed, pending, fatal>>

NextCert == \E commonName \in CommonNames, env \in Envs : CallNewSelfSignedCert(commonName, env)

SpecCert == Init /\ [][NextCert]_vars

(* ------------------------ observation helpers ------------------------- *)
InCall(t) == status[t] \in {"running", "returned"}

\* the outermost call of t's current event: source -> sink
TopCall(t) == trace[t][1]

\* calls made on, and returns made by, the activation at nesting depth d
CallsAt(t, d) == SelectSeq(trace[t], LAMBDA e : e.type = "call" /\ e.d = d)
RetsAt(t, d)  == SelectSeq(trace[t], LAMBDA e : e.type = "ret" /\ e.d = d)

TerminalCalls(t) == SelectSeq(trace[t], LAMBDA e : e.type = "call" /\ e.on \in Terminals)

\* the places where event n stands in the terminal consumers' logs
Deliveries(n) ==
  UNION {{<<c, i>> : i \in {j \in 1..Len(received[c]) : received[c][j] = n}} : c \in Terminals}

\* where an event entering sink s ends under the present wiring: a terminal
\* consumer, Nil (dropped at an unwired sink) or "cycle"
RECURSIVE ResolveFrom(_, _)
ResolveFrom(s, fuel) ==
  IF Consumer[s] = Nil THEN Nil
  ELSE IF Consumer[s] \in Terminals THEN Consumer[s]
  ELSE IF fuel = 0 THEN "cycle"
  ELSE ResolveFrom(Consumer[s], fuel - 1)

Resolve(s) == ResolveFrom(s, Cardinality(Sinks))

\* number of sinks an event entering s passes before it reaches a terminal
RECURSIVE HopsFrom(_, _)
HopsFrom(s, fuel) ==
  IF Consumer[s] \in Sinks /\ fuel > 0 THEN 1 + HopsFrom(Consumer[s], fuel - 1) ELSE 1

(* ------------------------------- claims ------------------------------- *)

\* C1: a finished call sink.OnK(P) on a sink with consumer C attached has made
\* exactly one call, on C, of the same operation OnK with the same payload P.
C1_ForwardsExactlyOnce ==
  \A t \in Sources : \A d \in 1..MaxDepth :
    \A i \in 1..Len(CallsAt(t, d)) :
      LET e == CallsAt(t, d)[i] IN
        (e.on \in Sinks /\ Consumer[e.on] # Nil /\ RetsAt(t, d) # << >>)
          => CallsAt(t, d + 1) = <<CallEntry(d + 1, e.on, Consumer[e.on], e.kind, e.arg)>>

C1_Witness ==
  \E t \in Sources :
    /\ status[t] = "returned"
    /\ TopCall(t).kind = "OnServiceDelete" /\ TopCall(t).arg = "p2"
    /\ Consumer[TopCall(t).on] = "C1"
    /\ Len(TerminalCalls(t)) = 1

\* C2: a call on a sink that never had a consumer attached (or had it set to
\* nil last) returns success, calls nothing, and leaves the sink unwired.
C2_UnwiredIsNoOp ==
  \A t \in Sources :
    (InCall(t) /\ lastAdded[TopCall(t).on] \in {Never, Nil}) =>
      /\ Consumer[TopCall(t).on] = Nil
      /\ \A i \in 2..Len(trace[t]) : trace[t][i].type # "call"
      /\ Deliveries(cur[t]) = {}
      /\ status[t] = "returned" =>
           /\ result[t] = Ok
           /\ trace[t] = <<TopCall(t),
                           RetEntry(1, TopCall(t).on, TopCall(t).kind, TopCall(t).arg, Ok)>>

C2_Witness ==
  \E t \in Sources :
    /\ status[t] = "returned"
    /\ cur[t] = 3
    /\ \A s \in Sinks : lastAdded[s] = Never
    /\ result[t] = Ok

\* C3: every sink activation that forwarded returns exactly the result its
\* consumer returned, and the source receives the outermost sink's result.
C3_ResultUnchanged ==
  \A t \in Sources :
    /\ \A d \in 1..MaxDepth :
         (RetsAt(t, d) # << >> /\ CallsAt(t, d + 1) # << >>) =>
           /\ RetsAt(t, d + 1) # << >>
           /\ RetsAt(t, d)[1].res = RetsAt(t, d + 1)[1].res
    /\ status[t] = "returned" =>
         /\ RetsAt(t, 1) # << >>
         /\ result[t] = RetsAt(t, 1)[1].res

C3_Witness ==
  \E t \in Sources :
    /\ status[t] = "returned"
    /\ result[t] = "err2"
    /\ Len(TerminalCalls(t)) = 1
    /\ TerminalCalls(t)[1].d = 3

\* C4: every call a sink makes goes to the argument of the most recent
\* AddConsumer on that sink, so an event reaches no consumer but that one.
C4_LastWriterWins ==
  \A t \in Sources :
    /\ \A i \in 1..Len(trace[t]) :
         (trace[t][i].type = "call" /\ trace[t][i].by \in Sinks)
           => trace[t][i].on = lastAdded[trace[t][i].by]
    /\ InCall(t) =>
         \A p \in Deliveries(cur[t]) :
           \E i \in 1..Len(trace[t]) :
             /\ trace[t][i].type = "call"
             /\ trace[t][i].on = p[1]
             /\ trace[t][i].by \in Sinks
             /\ lastAdded[trace[t][i].by] = p[1]

C4_Witness ==
  \E t \in Sources :
    /\ status[t] = "returned"
    /\ TopCall(t).on = "A"
    /\ lastAdded = [s \in Sinks |-> IF s = "A" THEN "C2" ELSE Never]
    /\ received["C1"] = <<1>>
    /\ received["C2"] = <<2, 3>>

\* C5: events one caller pushes one after the other reach a terminal consumer
\* in push order: each log is strictly ascending, the event of a finished call
\* through a wired path is the latest entry of its consumer's log, and a log
\* only ever grows by the event whose call is running.
C5_Order ==
  /\ \A c \in Terminals : \A i, j \in 1..Len(received[c]) :
       i < j => received[c][i] < received[c][j]
  /\ \A n \in 1..Len(pushedBy) : Cardinality(Deliveries(n)) <= 1
  /\ \A t \in Sources :
       (status[t] = "returned" /\ Resolve(TopCall(t).on) \in Terminals) =>
         LET c == Resolve(TopCall(t).on) IN
           /\ received[c] # << >>
           /\ received[c][Len(received[c])] = cur[t]

C5_AppendOnly ==
  \A c \in Terminals :
    \/ received'[c] = received[c]
    \/ \E t \in Sources : status[t] = "running" /\ received'[c] = Append(received[c], cur[t])

C5_OrderPreserved == [] C5_Order /\ [][C5_AppendOnly]_vars

C5_Witness ==
  /\ status[MainSource] = "returned"
  /\ received["C1"] = <<1, 2, 3>>
  /\ Consumer["A"] = "C1"

\* C6: an event pushed into the head of a chain of sinks that ends at terminal
\* consumer C reaches C exactly once, as the same operation with the same
\* payload, after one hop per sink, and the head returns C's own result.
C6_ChainDelivers ==
  \A t \in Sources :
    (status[t] = "returned" /\ Resolve(TopCall(t).on) \in Terminals) =>
      LET c  == Resolve(TopCall(t).on)
          tc == TerminalCalls(t)
      IN /\ Len(tc) = 1
         /\ tc[1].on = c
         /\ tc[1].kind = TopCall(t).kind
         /\ tc[1].arg = TopCall(t).arg
         /\ tc[1].d = HopsFrom(TopCall(t).on, Cardinality(Sinks)) + 1
         /\ Deliveries(cur[t]) = {<<c, Len(received[c])>>}
         /\ RetsAt(t, tc[1].d) # << >>
         /\ result[t] = RetsAt(t, tc[1].d)[1].res

C6_Witness ==
  \E t \in Sources :
    /\ status[t] = "returned"
    /\ Consumer = [s \in Sinks |-> IF s = "A" THEN "B" ELSE IF s = "B" THEN "D" ELSE "C2"]
    /\ TopCall(t).on = "A"
    /\ TopCall(t).kind = "OnWorkloadDelete" /\ TopCall(t).arg = "p2"
    /\ result[t] = "err2"

\* C7 as stated: no step leads a wired sink back to unwired.
C7_OnceWiredAlwaysWired ==
  [][\A s \in Sinks : Consumer[s] # Nil => Consumer'[s] # Nil]_vars

\* C7 amended: a wired sink becomes unwired only by an AddConsumer call whose
\* argument is the absent (nil) consumer; no handler step and no AddConsumer
\* call with a present consumer detaches it.
C7_OnlyNilDetaches ==
  [][\A s \in Sinks :
       (Consumer[s] # Nil /\ Consumer'[s] = Nil) =>
         /\ lastAdded[s] # Nil
         /\ lastAdded'[s] = Nil
         /\ UNCHANGED <<stack, status, trace, received>>]_vars

C7_Witness ==
  /\ lastAdded = [s \in Sinks |-> IF s = "A" THEN Nil ELSE Never]
  /\ Consumer["A"] = Nil
  /\ received["C1"] = <<1>>
  /\ status[MainSource] = "returned"
  /\ cur[MainSource] = 2

\* C8: with several sources pushing into one wired sink at the same time, no
\* event stands twice in the consumers' logs, the event of every finished call
\* through a wired path stands in its consumer's log, the events of one source
\* stand in that source's push order, and a log only grows by running events.
C8_State ==
  /\ \A n \in 1..Len(pushedBy) : Cardinality(Deliveries(n)) <= 1
  /\ \A c \in Terminals : \A i, j \in 1..Len(received[c]) :
       (i < j /\ pushedBy[received[c][i]] = pushedBy[received[c][j]])
         => received[c][i] < received[c][j]
  /\ \A t \in Sources :
       (status[t] = "returned" /\ Resolve(TopCall(t).on) \in Terminals) =>
         \E i \in 1..Len(received[Resolve(TopCall(t).on)]) :
           Deliveries(cur[t]) = {<<Resolve(TopCall(t).on), i>>}

C8_Grow ==
  \A c \in Terminals :
    \/ received'[c] = received[c]
    \/ \E t \in Sources :
         /\ status[t] = "running"
         /\ pushedBy[cur[t]] = t
         /\ received'[c] = Append(received[c], cur[t])

C8_PerSourceOrder == [] C8_State /\ [][C8_Grow]_vars

\* two sources were inside the sink at once and source 2's event overtook
\* an earlier event of source 1, whose own events kept their order
C8_Witness ==
  /\ pushedBy = <<"src1", "src2", "src1">>
  /\ received["C1"] = <<2, 1, 3>>
  /\ AllIdle

\* C9: when a call has returned to its source, every activation it started
\* has returned, innermost first, the terminal consumer on a wired path has
\* handled the event, and the goroutine's stack is empty; an idle source has
\* nothing under way.
C9_Synchronous ==
  \A t \in Sources :
    /\ status[t] = "returned" =>
         /\ stack[t] = << >>
         /\ \A d \in 1..(MaxDepth + 1) : Len(CallsAt(t, d)) = Len(RetsAt(t, d))
         /\ \A i, j \in 1..Len(trace[t]) :
              (i < j /\ trace[t][i].type = "ret") => trace[t][j].d < trace[t][i].d
         /\ trace[t][Len(trace[t])].type = "ret" /\ trace[t][Len(trace[t])].d = 1
         /\ Resolve(TopCall(t).on) \in Terminals =>
              Deliveries(cur[t]) # {}
    /\ status[t] = "idle" => (stack[t] = << >> /\ trace[t] = << >> /\ cur[t] = 0)

C9_Witness ==
  /\ status[MainSource] = "returned"
  /\ TopCall(MainSource).on = "A"
  /\ Consumer["A"] = "B" /\ Consumer["B"] = "C2"
  /\ Len(trace[MainSource]) = 6
  /\ result[MainSource] = "err1"

\* C10: a failed event was handed to a terminal consumer exactly once; no
\* event stands twice in the consumers' logs, whatever calls came later.
C10_NoRetryNoRedelivery ==
  /\ \A n \in 1..Len(pushedBy) : Cardinality(Deliveries(n)) <= 1
  /\ \A n \in failed : Cardinality(Deliveries(n)) = 1
  /\ \A t \in Sources :
       (status[t] = "returned" /\ result[t] \in Errors) =>
         /\ Len(TerminalCalls(t)) = 1
         /\ cur[t] \in failed

C10_Witness ==
  /\ AllIdle
  /\ failed = {1}
  /\ lastAdded["A"] = "C2"
  /\ received["C1"] = <<1>>
  /\ received["C2"] = <<2, 3>>

\* C11: while AddConsumer replaces a present consumer by a present consumer
\* beside it, a call on the sink does not end the process, and once it has
\* returned it has been delivered exactly once, to one consumer, whose result
\* the caller got.
C11_SwapDeliversOnce ==
  \A t \in Sources :
    (InCall(t) /\ Consumer[TopCall(t).on] \in Terminals) =>
      /\ fatal = "none"
      /\ status[t] = "returned" =>
           /\ Len(TerminalCalls(t)) = 1
           /\ \E i \in 1..Len(received[TerminalCalls(t)[1].on]) :
                Deliveries(cur[t]) = {<<TerminalCalls(t)[1].on, i>>}
           /\ RetsAt(t, 2) # << >>
           /\ result[t] = RetsAt(t, 2)[1].res

\* C12: with AddConsumer called beside the handlers with any value, nil
\* included, no handler calls through an absent consumer.
C12_NeverCallsAbsent == fatal # "nil dereference"

\* the first unwired sink on the way from s (Nil when there is none)
RECURSIVE DropPointFrom(_, _)
DropPointFrom(s, fuel) ==
  IF Consumer[s] = Nil THEN s
  ELSE IF Consumer[s] \in Terminals \/ fuel = 0 THEN Nil
  ELSE DropPointFrom(Consumer[s], fuel - 1)

DropPoint(s) == DropPointFrom(s, Cardinality(Sinks))

\* C13: an event pushed into the head of a chain wired in any order reaches
\* the terminal consumer exactly when every sink on its way is wired; with an
\* unwired sink on the way the push returns success and no terminal consumer
\* is invoked; wiring that sink to a consumer leaves the sinks before it as
\* they are, so the head then leads where the new consumer leads.
C13_State ==
  \A t \in Sources :
    status[t] = "returned" =>
      LET h == TopCall(t).on IN
        /\ (Resolve(h) \in Terminals) <=> (TerminalCalls(t) # << >>)
        /\ (Resolve(h) \in Terminals) <=> (Deliveries(cur[t]) # {})
        /\ Resolve(h) \in Terminals => TerminalCalls(t)[1].on = Resolve(h)
        /\ Resolve(h) = Nil =>
             /\ result[t] = Ok
             /\ cur[t] \notin failed
             /\ received = [c \in Terminals |->
                              SelectSeq(received[c], LAMBDA n : n # cur[t])]

C13_Completes ==
  \A s \in Sinks :
    (DropPoint(HeadSink) = s /\ Consumer'[s] # Nil) =>
      /\ \A u \in Sinks \ {s} : Consumer'[u] = Consumer[u]
      /\ Consumer'[s] \in Terminals => Resolve(HeadSink)' = Consumer'[s]
      /\ \A x \in Sinks : Consumer'[s] = x => Resolve(HeadSink)' = Resolve(x)'

C13_WiredInAnyOrder == [] C13_State /\ [][C13_Completes]_vars

\* the first event into the head was dropped, the second went down the whole
\* chain to the terminal consumer
C13_Witness ==
  /\ status[MainSource] = "returned"
  /\ cur[MainSource] = 2
  /\ failed = {}
  /\ received = [c \in Terminals |-> IF c = "C1" THEN <<2>> ELSE << >>]
  /\ Consumer = [s \in Sinks |-> IF s = "A" THEN "B" ELSE IF s = "B" THEN "D" ELSE "C1"]

\* C14: every call into a sink returns, whatever AddConsumer has wired, sinks
\* attached to other sinks or to themselves included: no call is left running
\* in a process that a runtime error has ended.
C14_EveryCallReturns ==
  \A t \in Sources : status[t] = "running" => fatal = "none"

\* C15: only AddConsumer changes a sink's attached consumer: the field always
\* holds the argument of the latest AddConsumer (nothing before the first),
\* and every step of a handler, whether the event is delivered, fails
\* downstream or is dropped, leaves every sink's field as it was.
C15_State ==
  \A s \in Sinks : Consumer[s] = IF lastAdded[s] = Never THEN Nil ELSE lastAdded[s]

C15_HandlerStep ==
  (<<stack, status, result, cur, trace, received, pushedBy>>'
      # <<stack, status, result, cur, trace, received, pushedBy>>)
    => Consumer' = Consumer

C15_OnlyAddConsumerRewires == [] C15_State /\ [][C15_HandlerStep]_vars

\* one event dropped, one delivered, one failed downstream: the sink still
\* holds the consumer attached before the second
C15_Witness ==
  /\ status[MainSource] = "returned"
  /\ cur[MainSource] = 3
  /\ TopCall(MainSource).on = "A"
  /\ Deliveries(1) = {}
  /\ Deliveries(2) = {<<"C2", 1>>}
  /\ Deliveries(3) = {<<"C2", 2>>}
  /\ failed = {3}
  /\ lastAdded = [s \in Sinks |-> IF s = "A" THEN "C2" ELSE Never]
  /\ Consumer["A"] = "C2"

\* C16: an AddConsumer call invokes nothing and cannot fail: the step that
\* attaches a consumer leaves every consumer's log, every call and the process
\* as they were; a log only ever grows by the event of the call that is
\* running, which no log holds yet, so with calls issued one at a time a
\* consumer receives only events pushed after it was attached and is never
\* handed an event that was dropped or delivered before.
C16_AttachStep ==
  (Consumer' # Consumer \/ lastAdded' # lastAdded) =>
    /\ UNCHANGED <<stack, status, result, cur, trace, received, pushedBy, failed, fatal>>
    /\ fatal = "none"
    /\ \A t \in Sources : cur[t] = 0

C16_DeliveryStep ==
  \A c \in Terminals :
    received'[c] # received[c] =>
      \E t \in Sources :
        /\ status[t] = "running"
        /\ cur[t] = Len(pushedBy)
        /\ Deliveries(cur[t]) = {}
        /\ received'[c] = Append(received[c], cur[t])
        /\ Consumer' = Consumer

C16_AttachInvokesNothing == [][C16_AttachStep /\ C16_DeliveryStep]_vars

\* event 1 was dropped, event 2 went to C1, then C2 was attached: C2 holds
\* event 3 alone
C16_Witness ==
  /\ status[MainSource] = "returned"
  /\ cur[MainSource] = 3
  /\ TopCall(MainSource).on = "B"
  /\ lastAdded = [s \in Sinks |-> IF s = "B" THEN "C2" ELSE Never]
  /\ received = [c \in Terminals |-> IF c = "C1" THEN <<2>> ELSE <<3>>]

\* what event n was: the step of its source's script it stands for
EventOf(n) == Script(pushedBy[n], EventsOf(pushedBy[n], n))

IsUpdate(e) == e.kind \in {"OnServiceUpdate", "OnWorkloadUpdate"}
UpdateFor(k) == IF k = "OnServiceDelete" THEN "OnServiceUpdate" ELSE "OnWorkloadUpdate"

\* event n deletes a name that none of the updates before it carried
NeverUpdated(n) ==
  /\ ~IsUpdate(EventOf(n))
  /\ \A m \in 1..(n - 1) :
       ~(EventOf(m).kind = UpdateFor(EventOf(n).kind) /\ EventOf(m).arg = EventOf(n).arg)

\* event n is an update that an earlier event already carried, same payload
Repeated(n) == IsUpdate(EventOf(n)) /\ \E m \in 1..(n - 1) : EventOf(m) = EventOf(n)

\* C17: whether a sink forwards depends on its attachment alone: every
\* finished call on a wired sink, whatever the payload and whatever events
\* came before (a delete of a name never updated, a repeated identical update),
\* has been forwarded once, unchanged, and returned the consumer's result;
\* every finished call on an unwired sink was dropped with success.
C17_ForwardsWhateverHistory ==
  \A t \in Sources :
    status[t] = "returned" =>
      LET s == TopCall(t).on
          n == cur[t]
      IN /\ TopCall(t).kind = EventOf(n).kind /\ TopCall(t).arg = EventOf(n).arg
         /\ Consumer[s] # Nil =>
              /\ CallsAt(t, 2) = <<CallEntry(2, s, Consumer[s], EventOf(n).kind, EventOf(n).arg)>>
              /\ RetsAt(t, 2) # << >>
              /\ result[t] = RetsAt(t, 2)[1].res
              /\ Deliveries(n) = {<<Consumer[s], Len(received[Consumer[s]])>>}
         /\ Consumer[s] = Nil => (Len(trace[t]) = 2 /\ result[t] = Ok /\ Deliveries(n) = {})

\* the service source's update, the same update again and its delete of the
\* name it never announced have all reached C1, the delete failing there
C17_Witness ==
  /\ status["src1"] = "returned"
  /\ cur["src1"] = 3
  /\ Repeated(2)
  /\ NeverUpdated(3)
  /\ EventOf(3).kind = "OnServiceDelete"
  /\ received["C1"] = <<1, 2, 3>>
  /\ failed = {3}
  /\ result["src1"] = "err2"

\* the library calls of a NewSelfSignedCert call that answer with an error
FailingSteps(env) == {f \in DOMAIN env : env[f] \in LibErrors}

\* C18: NewSelfSignedCert is all-or-nothing: when any of its steps fails (key
\* generation, serial number, certificate creation, PEM encoding of the
\* certificate, key marshalling, PEM encoding of the key) it returns a non-nil
\* error and the empty KeyPair; it returns a nil error only when no step
\* failed, and then CertPEM and KeyPEM both hold bytes.
C18_AllOrNothing ==
  tlsCall.called =>
    LET ret == tlsCall.ret
        bad == FailingSteps(tlsCall.env)
    IN /\ bad # {} => (ret.err # Nil /\ ret.pair = EmptyKeyPair)
       /\ ret.err = Nil =>
            /\ bad = {}
            /\ ret.pair.CertPEM # NoBytes
            /\ ret.pair.KeyPEM # NoBytes

\* the certificate was made and PEM encoded, then encoding the key failed:
\* the caller gets the error and no certificate
C18_Witness ==
  /\ tlsCall.called
  /\ FailingSteps(tlsCall.env) = {"EncodeKey"}
  /\ generateCert(tlsCall.commonName, tlsCall.env.GenerateKey, tlsCall.env).val # NoBytes
  /\ tlsCall.ret = [pair |-> EmptyKeyPair,
                    err |-> "failed to PEM encode TLS key: short read"]

==========================================================================
